---- MODULE Spec2Model ----
(***************************************************************************)
(* Model of ListTicketsService (whaticket-community).                      *)
(*                                                                         *)
(*   Spec   models backend/src/services/TicketServices/ListTicketsService.ts*)
(*   SpecB  models the second variant of the service (unnamed/part_000).    *)
(*                                                                         *)
(* A service invocation is one run: the user lookup, the clause-by-clause   *)
(* construction of whereCondition/includeCondition, the single             *)
(* Ticket.findAndCountAll call and the computation of hasMore.              *)
(*                                                                         *)
(* Modelling conventions                                                   *)
(*   - strings whose characters matter (search text, contact name/number,  *)
(*     message body, page number) are sequences of one-character strings;  *)
(*   - an id column holding NULL is 0 (real ids are auto-increment, > 0);   *)
(*   - instants are milliseconds counted from local midnight of 2024-05-01  *)
(*     (the absolute epoch does not fit TLC's integers);                   *)
(*   - a JS object literal {...whereCondition, k: v} is [w EXCEPT !.k = v]: *)
(*     a key that is written twice keeps only the last value, which is     *)
(*     what the spread operator does, in particular for the [Op.or] key.   *)
(***************************************************************************)
EXTENDS Integers, Sequences, FiniteSets

VARIABLES users, req, pc, user, whereCondition, includeCondition,
          rows, count, response, nLookups, nQueries

vars == <<users, req, pc, user, whereCondition, includeCondition,
          rows, count, response, nLookups, nQueries>>

-----------------------------------------------------------------------------
(* Bounds of the model *)

NumTickets == 180

MaxPage == 4

-----------------------------------------------------------------------------
(* Program constants *)

limit == 40

Sentinel == 0 - 1

MsPerDay == 86400000

NullId == 0

-----------------------------------------------------------------------------
(* Strings *)

LowerChar(c) ==
  CASE c = "A" -> "a"
    [] c = "M" -> "m"
    [] c = "X" -> "x"
    [] OTHER -> c

toLocaleLowerCase(s) == [i \in 1..Len(s) |-> LowerChar(s[i])]

RECURSIVE trimStart(_)
trimStart(s) ==
  IF s # <<>> /\ Head(s) = " " THEN trimStart(Tail(s)) ELSE s

RECURSIVE trimEnd(_)
trimEnd(s) ==
  IF s # <<>> /\ s[Len(s)] = " " THEN trimEnd(SubSeq(s, 1, Len(s) - 1)) ELSE s

trim(s) == trimEnd(trimStart(s))

sanitizedSearchParam(searchParam) == trim(toLocaleLowerCase(searchParam))

(* column LIKE '%p%' for a pattern p without wildcard characters *)
Like(s, p) ==
  \E i \in 0..(Len(s) - Len(p)) : SubSeq(s, i + 1, i + Len(p)) = p

DigitValue(c) ==
  CASE c = "0" -> 0 [] c = "1" -> 1 [] c = "2" -> 2 [] c = "3" -> 3
    [] c = "4" -> 4 [] c = "5" -> 5 [] c = "6" -> 6 [] c = "7" -> 7
    [] c = "8" -> 8 [] c = "9" -> 9

RECURSIVE ToNumber(_)
ToNumber(s) ==
  IF s = <<>> THEN 0
  ELSE 10 * ToNumber(SubSeq(s, 1, Len(s) - 1)) + DigitValue(s[Len(s)])

DigitChars == <<"0", "1", "2", "3", "4", "5", "6", "7", "8", "9">>

RECURSIVE NumberToString(_)
NumberToString(n) ==
  IF n < 10 THEN <<DigitChars[n + 1]>>
  ELSE Append(NumberToString(n \div 10), DigitChars[(n % 10) + 1])

-----------------------------------------------------------------------------
(* Dates (date-fns) *)

parseISO(d) ==
  CASE d = "2024-05-01" -> 0
    [] d = "2024-05-02" -> MsPerDay
    [] d = "2024-05-03" -> 2 * MsPerDay

startOfDay(ms) == ms - (ms % MsPerDay)

endOfDay(ms) == startOfDay(ms) + MsPerDay - 1

-----------------------------------------------------------------------------
(* The ticket store the service reads.  Ticket i takes its columns from a  *)
(* mixed-radix decomposition of i, so that every combination of queue,     *)
(* owner, status and unread count occurs, each with several creation       *)
(* instants and contacts; updatedAt is a permutation of the ids.           *)

QueueIdOf == <<NullId, 1, 2, 3>>

OwnerIdOf == <<NullId, 1, 2>>

StatusOf == <<"pending", "open", "closed">>

CreatedAtOf ==
  << MsPerDay - 1, MsPerDay, 2 * MsPerDay - 1, 2 * MsPerDay, 2 * MsPerDay + 1 >>

ContactOf ==
  << [name |-> <<"M", "a", "r">>, number |-> <<"5", "1">>, messages |-> {}],
     [name |-> <<"b">>, number |-> <<"1", "2">>, messages |-> {}],
     [name |-> <<"b">>, number |-> <<"5">>, messages |-> {<<"o", "M", "A">>}],
     [name |-> <<"X", "m", "a">>, number |-> <<"7">>, messages |-> {<<"o", "k">>}],
     [name |-> <<"b", "o">>, number |-> <<"7">>, messages |-> {<<"o", "k">>, <<"n">>}],
     [name |-> <<"a", " ", "m">>, number |-> <<"5", "5">>, messages |-> {}],
     [name |-> <<"n">>, number |-> <<"2">>, messages |-> {<<"m">>, <<"a">>}] >>

TicketRow(i) ==
  [ id             |-> i,
    queueId        |-> QueueIdOf[((i - 1) % 4) + 1],
    userId         |-> OwnerIdOf[(((i - 1) \div 4) % 3) + 1],
    status         |-> StatusOf[(((i - 1) \div 12) % 3) + 1],
    unreadMessages |-> 3 * (((i - 1) \div 36) % 2),
    createdAt      |-> CreatedAtOf[(i % 5) + 1],
    contact        |-> [name   |-> ContactOf[(i % 7) + 1].name,
                        number |-> ContactOf[(i % 7) + 1].number],
    messages       |-> ContactOf[(i % 7) + 1].messages,
    updatedAt      |-> (i * 37) % 1009 ]

TicketStore == [i \in 1..NumTickets |-> TicketRow(i)]

-----------------------------------------------------------------------------
(* Users (ShowUserService) and requests *)

Profiles == {"user", "admin", "superadmin"}

QueueLists == {<<>>, <<[id |-> 1]>>, <<[id |-> 1], [id |-> 2]>>}

UserRecords ==
  [id : {1}, profile : Profiles, queues : QueueLists]

UserTables == {{}} \cup {{u} : u \in UserRecords}

NoUser == [id |-> NullId, profile |-> "", queues |-> <<>>]

SearchParams == {<<>>, <<"M", "A", " ">>, <<"1">>, <<" ">>}

Requests ==
  [ searchParam        : SearchParams,
    pageNumber         : {NumberToString(p) : p \in 1..MaxPage},
    status             : {"", "pending", "open"},
    date               : {"", "2024-05-02"},
    showAll            : {"", "true", "false"},
    userId             : {<<"1">>},
    withUnreadMessages : {"", "true"},
    queueIds           : {<<>>, <<2>>, <<1, 3>>} ]

Range(s) == {s[i] : i \in 1..Len(s)}

-----------------------------------------------------------------------------
(* The acting user's permissions, first variant *)

userQueueIds(u) == [i \in 1..Len(u.queues) |-> u.queues[i].id]

isAdmin(u) == u.profile = "admin" \/ u.profile = "superadmin"

(* variation: the caller's list is trusted for every profile *)
effectiveQueueIdsTrusting(u, queueIds) ==
  IF Len(queueIds) > 0 THEN queueIds ELSE userQueueIds(u)

effectiveQueueIds(u, queueIds) ==
  IF isAdmin(u) /\ Len(queueIds) > 0 THEN queueIds ELSE userQueueIds(u)

-----------------------------------------------------------------------------
(* whereCondition: one field per key of the JS object.  op/kind "absent"   *)
(* (status "") means that the key is not in the object.                    *)

AbsentQueueId == [op |-> "absent", vals |-> {}]

AbsentOr == [kind |-> "absent", userId |-> <<>>, pat |-> <<>>]

AbsentCreatedAt == [op |-> "absent", lo |-> 0, hi |-> 0]

AbsentUnread == [op |-> "absent", val |-> 0]

EmptyWhere ==
  [ queueId        |-> AbsentQueueId,
    or             |-> AbsentOr,
    status         |-> "",
    createdAt      |-> AbsentCreatedAt,
    unreadMessages |-> AbsentUnread ]

(* an entry of includeCondition; pat is the LIKE pattern of its where, for *)
(* an entry that has one (filtered)                                        *)
IncludeOf(as) == [as |-> as, filtered |-> FALSE, pat |-> <<>>]

(* { model: Message, as: "messages", where: { body: LOWER(body) LIKE },     *)
(*   required: false, duplicating: false }                                 *)
MessagesInclude(pat) == [as |-> "messages", filtered |-> TRUE, pat |-> pat]

DefaultInclude == <<IncludeOf("contact"), IncludeOf("queue"), IncludeOf("whatsapp")>>

(* [Op.or]: [{ userId }, { status: "pending" }] *)
OwnerOrPending(userId) == [kind |-> "owner", userId |-> userId, pat |-> <<>>]

(* [Op.or]: [contact.name LIKE, contact.number LIKE, message body LIKE] *)
SearchOr(pat) == [kind |-> "search", userId |-> <<>>, pat |-> pat]

(* first variant, clause by clause *)

(* variation: an empty scope adds no clause instead of the sentinel *)
QueueClauseNoSentinel(w, u, queueIds) ==
  IF Len(effectiveQueueIds(u, queueIds)) > 0
  THEN [w EXCEPT !.queueId =
          [op |-> "in", vals |-> Range(effectiveQueueIds(u, queueIds))]]
  ELSE w

QueueClause(w, u, queueIds) ==
  IF ~isAdmin(u)
  THEN [w EXCEPT !.queueId =
          [op |-> "in",
           vals |-> IF Len(effectiveQueueIds(u, queueIds)) > 0
                    THEN Range(effectiveQueueIds(u, queueIds))
                    ELSE {Sentinel}]]
  ELSE IF Len(effectiveQueueIds(u, queueIds)) > 0
       THEN [w EXCEPT !.queueId =
               [op |-> "in", vals |-> Range(effectiveQueueIds(u, queueIds))]]
       ELSE w

OwnershipClause(w, showAll, userId) ==
  IF showAll = "true" THEN w
  ELSE [w EXCEPT !.or = OwnerOrPending(userId)]

StatusClause(w, status) ==
  IF status # "" THEN [w EXCEPT !.status = status] ELSE w

(* variation: the date clause replaces the accumulated object *)
DateClauseOverwriting(w, date) ==
  IF date # ""
  THEN [EmptyWhere EXCEPT !.createdAt =
          [op |-> "between",
           lo |-> startOfDay(parseISO(date)),
           hi |-> endOfDay(parseISO(date))]]
  ELSE w

DateClause(w, date) ==
  IF date # ""
  THEN [w EXCEPT !.createdAt =
          [op |-> "between",
           lo |-> startOfDay(parseISO(date)),
           hi |-> endOfDay(parseISO(date))]]
  ELSE w

SearchClause(w, searchParam) ==
  IF searchParam # <<>>
  THEN [w EXCEPT !.or = SearchOr(sanitizedSearchParam(searchParam))]
  ELSE w

SearchInclude(inc, searchParam) ==
  IF searchParam # <<>>
  THEN Append(inc, MessagesInclude(sanitizedSearchParam(searchParam)))
  ELSE inc

UnreadClause(w, withUnreadMessages) ==
  IF withUnreadMessages = "true"
  THEN [w EXCEPT !.unreadMessages = [op |-> "gt", val |-> 0]]
  ELSE w

-----------------------------------------------------------------------------
(* The second variant (unnamed/part_000), clause by clause *)

isAdminB(u) == u.profile = "admin"

userQueueIdsB(u) == [i \in 1..Len(u.queues) |-> u.queues[i].id]

(* queueId: { [Op.or]: [userQueueIds, null] } *)
QueueOrNull(ids) == [op |-> "inOrNull", vals |-> Range(ids)]

QueueClauseB(u) ==
  IF isAdminB(u) THEN EmptyWhere
  ELSE [EmptyWhere EXCEPT !.queueId = QueueOrNull(userQueueIdsB(u))]

OwnershipClauseB(w, u, userId) ==
  IF ~isAdminB(u)
  THEN [w EXCEPT !.or = OwnerOrPending(userId)]
  ELSE [EmptyWhere EXCEPT !.or = OwnerOrPending(userId)]

ShowAllClauseB(w, u, showAll) ==
  IF showAll = "true"
  THEN IF isAdminB(u) THEN EmptyWhere
       ELSE [EmptyWhere EXCEPT !.queueId = QueueOrNull(userQueueIdsB(u))]
  ELSE w

StatusClauseB(w, status) ==
  IF status # "" THEN [w EXCEPT !.status = status] ELSE w

SearchClauseB(w, searchParam) ==
  IF searchParam # <<>>
  THEN [w EXCEPT !.or = SearchOr(sanitizedSearchParam(searchParam))]
  ELSE w

SearchIncludeB(inc, searchParam) ==
  IF searchParam # <<>>
  THEN Append(inc, MessagesInclude(sanitizedSearchParam(searchParam)))
  ELSE inc

DateClauseB(w, date) ==
  IF date # ""
  THEN [w EXCEPT !.createdAt =
          [op |-> "between",
           lo |-> startOfDay(parseISO(date)),
           hi |-> endOfDay(parseISO(date))]]
  ELSE w

UnreadClauseB(w, u, showAll, userId, withUnreadMessages) ==
  IF withUnreadMessages = "true"
  THEN IF ~isAdminB(u) /\ showAll # "true"
       THEN [w EXCEPT !.unreadMessages = [op |-> "gt", val |-> 0],
                      !.or = OwnerOrPending(userId)]
       ELSE [w EXCEPT !.unreadMessages = [op |-> "gt", val |-> 0]]
  ELSE w

-----------------------------------------------------------------------------
(* Ticket.findAndCountAll: evaluation of a whereCondition on the Tickets    *)
(* table (TicketStore), which the service only reads                       *)

(* the search disjunction on one ticket *)
SearchMatches(t, pat) ==
  \/ Like(toLocaleLowerCase(t.contact.name), pat)
  \/ Like(t.contact.number, pat)
  \/ \E body \in t.messages : Like(toLocaleLowerCase(body), pat)

OwnerMatches(t, userId) ==
  t.userId = ToNumber(userId) \/ t.status = "pending"

QueueIdMatches(c, t) ==
  CASE c.op = "absent"   -> TRUE
    [] c.op = "in"       -> t.queueId # NullId /\ t.queueId \in c.vals
    [] c.op = "inOrNull" -> \/ t.queueId # NullId /\ t.queueId \in c.vals
                            \/ t.queueId = NullId

OrMatches(c, t) ==
  CASE c.kind = "absent" -> TRUE
    [] c.kind = "owner"  -> OwnerMatches(t, c.userId)
    [] c.kind = "search" -> SearchMatches(t, c.pat)

CreatedAtMatches(c, t) ==
  c.op = "between" => (c.lo <= t.createdAt /\ t.createdAt <= c.hi)

UnreadMatches(c, t) ==
  c.op = "gt" => t.unreadMessages > c.val

Matches(w, t) ==
  /\ QueueIdMatches(w.queueId, t)
  /\ OrMatches(w.or, t)
  /\ (w.status # "" => t.status = w.status)
  /\ CreatedAtMatches(w.createdAt, t)
  /\ UnreadMatches(w.unreadMessages, t)

(* ids of the matching tickets *)
MatchSet(w) == {i \in DOMAIN TicketStore : Matches(w, TicketStore[i])}

(* the index on updatedAt: the ids of the table, newest update first *)
UpdatedAtIndex ==
  LET rank == [i \in DOMAIN TicketStore |->
                 Cardinality({j \in DOMAIN TicketStore :
                     TicketStore[j].updatedAt > TicketStore[i].updatedAt})]
  IN  [k \in 1..Len(TicketStore) |->
         CHOOSE i \in DOMAIN TicketStore : rank[i] = k - 1]

(* ORDER BY updatedAt DESC over the matching ids *)
OrderByUpdatedAtDesc(M) == SelectSeq(UpdatedAtIndex, LAMBDA i : i \in M)

(* Rows of the flat join for ticket t.  The messages entry is a left join  *)
(* (required: false) carrying its own where, and duplicating: false makes  *)
(* the query one join without sub-query: a ticket gives one row per        *)
(* message that matches the entry's pattern, and one row when none does.   *)
JoinedRows(t, inc) ==
  IF \E k \in 1..Len(inc) : inc[k].as = "messages"
  THEN LET k == CHOOSE j \in 1..Len(inc) : inc[j].as = "messages"
           n == Cardinality({body \in t.messages :
                               Like(toLocaleLowerCase(body), inc[k].pat)})
       IN  IF n > 0 THEN n ELSE 1
  ELSE 1

(* LIMIT room OFFSET skip over the joined rows of the ordered tickets      *)
(* s[k..]; the rows are then grouped into one instance per ticket.         *)
RECURSIVE LimitOffset(_, _, _, _, _)
LimitOffset(s, k, skip, room, inc) ==
  IF k > Len(s) \/ room <= 0 THEN <<>>
  ELSE LET m == JoinedRows(TicketStore[s[k]], inc)
       IN  IF skip >= m
           THEN LimitOffset(s, k + 1, skip - m, room, inc)
           ELSE <<s[k]>> \o
                LimitOffset(s, k + 1, 0, room - (m - skip), inc)

(* count is COUNT(DISTINCT Ticket.id) (distinct: true) *)
findAndCountAll(w, inc, lim, off) ==
  [ count |-> Cardinality(MatchSet(w)),
    rows  |-> LimitOffset(OrderByUpdatedAtDesc(MatchSet(w)), 1, off, lim, inc) ]

offset(pageNumber) == limit * (ToNumber(pageNumber) - 1)

hasMore(cnt, off, tickets) == cnt > off + Len(tickets)

(* the whereCondition the first variant hands to findAndCountAll *)
WhereOf(r, u) ==
  UnreadClause(
    SearchClause(
      DateClause(
        StatusClause(
          OwnershipClause(QueueClause(EmptyWhere, u, r.queueIds),
                          r.showAll, r.userId),
          r.status),
        r.date),
      r.searchParam),
    r.withUnreadMessages)

(* the response of the first variant for request r of the existing user u *)
ListTicketsService(r, u) ==
  LET q == findAndCountAll(WhereOf(r, u),
                           SearchInclude(DefaultInclude, r.searchParam),
                           limit, offset(r.pageNumber))
  IN  [ outcome |-> "ok",
        tickets |-> q.rows,
        count   |-> q.count,
        hasMore |-> hasMore(q.count, offset(r.pageNumber), q.rows) ]

-----------------------------------------------------------------------------
(* ShowUserService: the users with that id (none: the lookup fails) *)

ShowUserService(tbl, userId) == {u \in tbl : u.id = ToNumber(userId)}

NoResponse ==
  [outcome |-> "none", tickets |-> <<>>, count |-> 0, hasMore |-> FALSE]

NotFound ==
  [outcome |-> "NotFound", tickets |-> <<>>, count |-> 0, hasMore |-> FALSE]

-----------------------------------------------------------------------------
(* One invocation of the first variant *)

Init ==
  /\ users \in UserTables
  /\ req \in Requests
  /\ pc = "lookup"
  /\ user = NoUser
  /\ whereCondition = EmptyWhere
  /\ includeCondition = <<>>
  /\ rows = <<>>
  /\ count = 0
  /\ response = NoResponse
  /\ nLookups = 0
  /\ nQueries = 0

ShowUser ==
  /\ pc = "lookup"
  /\ \E u \in ShowUserService(users, req.userId) :
       /\ user' = u
       /\ pc' = "queue"
       /\ includeCondition' = DefaultInclude
       /\ whereCondition' = EmptyWhere
  /\ nLookups' = nLookups + 1
  /\ UNCHANGED <<users, req, rows, count, response, nQueries>>

(* variation: the failed lookup is swallowed and the service goes on *)
ShowUserFailsSwallowed ==
  /\ pc = "lookup"
  /\ ShowUserService(users, req.userId) = {}
  /\ pc' = "queue"
  /\ includeCondition' = DefaultInclude
  /\ nLookups' = nLookups + 1
  /\ UNCHANGED <<users, req, user, whereCondition, rows, count, response,
                 nQueries>>

ShowUserFails ==
  /\ pc = "lookup"
  /\ ShowUserService(users, req.userId) = {}
  /\ pc' = "failed"
  /\ response' = NotFound
  /\ nLookups' = nLookups + 1
  /\ UNCHANGED <<users, req, user, whereCondition, includeCondition,
                 rows, count, nQueries>>

ApplyQueueClause ==
  /\ pc = "queue"
  /\ whereCondition' = QueueClause(whereCondition, user, req.queueIds)
  /\ pc' = "ownership"
  /\ UNCHANGED <<users, req, user, includeCondition, rows, count,
                 response, nLookups, nQueries>>

ApplyOwnershipClause ==
  /\ pc = "ownership"
  /\ whereCondition' = OwnershipClause(whereCondition, req.showAll, req.userId)
  /\ pc' = "status"
  /\ UNCHANGED <<users, req, user, includeCondition, rows, count,
                 response, nLookups, nQueries>>

ApplyStatusClause ==
  /\ pc = "status"
  /\ whereCondition' = StatusClause(whereCondition, req.status)
  /\ pc' = "date"
  /\ UNCHANGED <<users, req, user, includeCondition, rows, count,
                 response, nLookups, nQueries>>

ApplyDateClause ==
  /\ pc = "date"
  /\ whereCondition' = DateClause(whereCondition, req.date)
  /\ pc' = "search"
  /\ UNCHANGED <<users, req, user, includeCondition, rows, count,
                 response, nLookups, nQueries>>

ApplySearchClause ==
  /\ pc = "search"
  /\ includeCondition' = SearchInclude(includeCondition, req.searchParam)
  /\ whereCondition' = SearchClause(whereCondition, req.searchParam)
  /\ pc' = "unread"
  /\ UNCHANGED <<users, req, user, rows, count, response, nLookups,
                 nQueries>>

ApplyUnreadClause ==
  /\ pc = "unread"
  /\ whereCondition' = UnreadClause(whereCondition, req.withUnreadMessages)
  /\ pc' = "query"
  /\ UNCHANGED <<users, req, user, includeCondition, rows, count,
                 response, nLookups, nQueries>>

QueryTickets ==
  /\ pc = "query"
  /\ LET r == findAndCountAll(whereCondition, includeCondition, limit,
                              offset(req.pageNumber))
     IN  /\ rows' = r.rows
         /\ count' = r.count
  /\ nQueries' = nQueries + 1
  /\ pc' = "respond"
  /\ UNCHANGED <<users, req, user, whereCondition, includeCondition,
                 response, nLookups>>

Return ==
  /\ pc = "respond"
  /\ response' = [ outcome |-> "ok",
                   tickets |-> rows,
                   count   |-> count,
                   hasMore |-> hasMore(count, offset(req.pageNumber), rows) ]
  /\ pc' = "done"
  /\ UNCHANGED <<users, req, user, whereCondition, includeCondition,
                 rows, count, nLookups, nQueries>>

Next ==
  \/ ShowUser
  \/ ShowUserFails
  \/ ApplyQueueClause
  \/ ApplyOwnershipClause
  \/ ApplyStatusClause
  \/ ApplyDateClause
  \/ ApplySearchClause
  \/ ApplyUnreadClause
  \/ QueryTickets
  \/ Return

Spec == Init /\ [][Next]_vars

-----------------------------------------------------------------------------
(* One invocation of the second variant *)

ShowUserB ==
  /\ pc = "lookup"
  /\ \E u \in ShowUserService(users, req.userId) :
       /\ user' = u
       /\ pc' = "queueB"
       /\ includeCondition' = DefaultInclude
  /\ nLookups' = nLookups + 1
  /\ UNCHANGED <<users, req, whereCondition, rows, count, response,
                 nQueries>>

ShowUserFailsB ==
  /\ pc = "lookup"
  /\ ShowUserService(users, req.userId) = {}
  /\ pc' = "failed"
  /\ response' = NotFound
  /\ nLookups' = nLookups + 1
  /\ UNCHANGED <<users, req, user, whereCondition, includeCondition,
                 rows, count, nQueries>>

ApplyQueueClauseB ==
  /\ pc = "queueB"
  /\ whereCondition' = QueueClauseB(user)
  /\ pc' = "ownershipB"
  /\ UNCHANGED <<users, req, user, includeCondition, rows, count,
                 response, nLookups, nQueries>>

ApplyOwnershipClauseB ==
  /\ pc = "ownershipB"
  /\ whereCondition' = OwnershipClauseB(whereCondition, user, req.userId)
  /\ pc' = "showAllB"
  /\ UNCHANGED <<users, req, user, includeCondition, rows, count,
                 response, nLookups, nQueries>>

ApplyShowAllB ==
  /\ pc = "showAllB"
  /\ whereCondition' = ShowAllClauseB(whereCondition, user, req.showAll)
  /\ pc' = "statusB"
  /\ UNCHANGED <<users, req, user, includeCondition, rows, count,
                 response, nLookups, nQueries>>

ApplyStatusClauseB ==
  /\ pc = "statusB"
  /\ whereCondition' = StatusClauseB(whereCondition, req.status)
  /\ pc' = "searchB"
  /\ UNCHANGED <<users, req, user, includeCondition, rows, count,
                 response, nLookups, nQueries>>

ApplySearchClauseB ==
  /\ pc = "searchB"
  /\ includeCondition' = SearchIncludeB(includeCondition, req.searchParam)
  /\ whereCondition' = SearchClauseB(whereCondition, req.searchParam)
  /\ pc' = "dateB"
  /\ UNCHANGED <<users, req, user, rows, count, response, nLookups,
                 nQueries>>

ApplyDateClauseB ==
  /\ pc = "dateB"
  /\ whereCondition' = DateClauseB(whereCondition, req.date)
  /\ pc' = "unreadB"
  /\ UNCHANGED <<users, req, user, includeCondition, rows, count,
                 response, nLookups, nQueries>>

ApplyUnreadClauseB ==
  /\ pc = "unreadB"
  /\ whereCondition' = UnreadClauseB(whereCondition, user, req.showAll,
                                     req.userId, req.withUnreadMessages)
  /\ pc' = "queryB"
  /\ UNCHANGED <<users, req, user, includeCondition, rows, count,
                 response, nLookups, nQueries>>

QueryTicketsB ==
  /\ pc = "queryB"
  /\ LET r == findAndCountAll(whereCondition, includeCondition, limit,
                              offset(req.pageNumber))
     IN  /\ rows' = r.rows
         /\ count' = r.count
  /\ nQueries' = nQueries + 1
  /\ pc' = "respondB"
  /\ UNCHANGED <<users, req, user, whereCondition, includeCondition,
                 response, nLookups>>

ReturnB ==
  /\ pc = "respondB"
  /\ response' = [ outcome |-> "ok",
                   tickets |-> rows,
                   count   |-> count,
                   hasMore |-> hasMore(count, offset(req.pageNumber), rows) ]
  /\ pc' = "done"
  /\ UNCHANGED <<users, req, user, whereCondition, includeCondition,
                 rows, count, nLookups, nQueries>>

NextB ==
  \/ ShowUserB
  \/ ShowUserFailsB
  \/ ApplyQueueClauseB
  \/ ApplyOwnershipClauseB
  \/ ApplyShowAllB
  \/ ApplyStatusClauseB
  \/ ApplySearchClauseB
  \/ ApplyDateClauseB
  \/ ApplyUnreadClauseB
  \/ QueryTicketsB
  \/ ReturnB

SpecB == Init /\ [][NextB]_vars


-----------------------------------------------------------------------------
(* Properties *)

Returned == {response.tickets[k] : k \in 1..Len(response.tickets)}

Pattern == sanitizedSearchParam(req.searchParam)

(* the queue-visibility constraint of the first variant for the acting user *)
QueueVisible(t) ==
  IF ~isAdmin(user) THEN t.queueId \in Range(userQueueIds(user))
  ELSE IF Len(req.queueIds) > 0 THEN t.queueId \in Range(req.queueIds)
  ELSE TRUE

(* C1: for an acting user who is neither admin nor superadmin, every       *)
(* returned ticket's queue is one of the user's assigned queues, and with  *)
(* no assigned queue the list is empty and count is 0.                     *)
C1_NonElevatedQueueScope ==
  (pc = "done" /\ ~isAdmin(user)) =>
    /\ \A i \in Returned : TicketStore[i].queueId \in Range(userQueueIds(user))
    /\ user.queues = <<>> => (response.tickets = <<>> /\ response.count = 0)

C1_Witness ==
  /\ pc = "done"
  /\ ~isAdmin(user)
  /\ user.queues # <<>>
  /\ req.queueIds = <<2>>
  /\ req.showAll = "true"
  /\ req.searchParam # <<>>
  /\ response.tickets # <<>>

(* C2: with showAll absent or different from "true", every returned ticket *)
(* is owned by the acting user or pending, and satisfies the queue         *)
(* constraint, whatever the other filters.                                 *)
C2_OwnerOrPendingKept ==
  (pc = "done" /\ req.showAll # "true") =>
    \A i \in Returned :
       /\ OwnerMatches(TicketStore[i], req.userId)
       /\ QueueVisible(TicketStore[i])

(* C3: for an admin or superadmin, a non-empty queueIds restricts the      *)
(* result to those queues, and without queueIds no queue restriction is    *)
(* applied, whatever queues the user is assigned to.                       *)
C3_ElevatedQueueOverride ==
  (pc = "done" /\ isAdmin(user)) =>
    /\ Len(req.queueIds) > 0 =>
         \A i \in Returned : TicketStore[i].queueId \in Range(req.queueIds)
    /\ Len(req.queueIds) = 0 =>
         /\ whereCondition.queueId.op = "absent"
         /\ MatchSet(whereCondition) =
              MatchSet([whereCondition EXCEPT !.queueId = AbsentQueueId])

(* C4: for a non-elevated user the response does not depend on the         *)
(* caller-supplied queueIds: the same request with any other queueIds,     *)
(* for the same user and table, has the same tickets, count and hasMore.   *)
C4_QueueIdsIgnored ==
  (pc = "done" /\ ~isAdmin(user)) =>
    \A q \in {<<>>, <<2>>, <<1, 3>>, <<3>>} :
       ListTicketsService([req EXCEPT !.queueIds = q], user) = response

C4_Witness ==
  /\ pc = "done"
  /\ ~isAdmin(user)
  /\ req.queueIds = <<1, 3>>
  /\ user.queues = <<[id |-> 1], [id |-> 2]>>
  /\ response.count > 0
  /\ \E i \in DOMAIN TicketStore : TicketStore[i].queueId = 3

(* C5: adding a non-empty searchParam matches exactly the tickets matched  *)
(* by the same request without searchParam that also match the search      *)
(* disjunction.                                                            *)
C5_SearchConjunctive ==
  (pc = "done" /\ req.searchParam # <<>>) =>
    MatchSet(whereCondition) =
      {i \in MatchSet(WhereOf([req EXCEPT !.searchParam = <<>>], user)) :
         SearchMatches(TicketStore[i], Pattern)}

(* C6: the returned tickets are the rows 40*(p-1)+1 .. 40*p of the         *)
(* matching set ordered by updatedAt descending, count is the size of the  *)
(* matching set, hasMore holds iff count > 40*(p-1) + returned, and an     *)
(* offset at or beyond count gives an empty list and hasMore false.        *)
C6_Pagination ==
  pc = "done" =>
    LET p   == ToNumber(req.pageNumber)
        M   == MatchSet(whereCondition)
        n   == Len(response.tickets)
        upd == [i \in DOMAIN TicketStore |-> TicketStore[i].updatedAt]
    IN  /\ response.count = Cardinality(M)
        /\ Returned \subseteq M
        /\ \A k \in 1..(n - 1) :
              upd[response.tickets[k]] > upd[response.tickets[k + 1]]
        /\ n > 0 =>
             /\ Cardinality({i \in M : upd[i] > upd[response.tickets[1]]})
                  = 40 * (p - 1)
             /\ \/ n = 40
                \/ Cardinality({i \in M : upd[i] < upd[response.tickets[n]]})
                     = 0
        /\ n = 0 => response.count <= 40 * (p - 1)
        /\ response.hasMore <=> (response.count > 40 * (p - 1) + n)
        /\ 40 * (p - 1) >= response.count =>
             (response.tickets = <<>> /\ ~response.hasMore)

(* C7: the user lookup precedes the ticket query; a failed lookup ends the *)
(* invocation with the not-found error, without a ticket query and without *)
(* a tickets/count/hasMore response; a successful one is followed by       *)
(* exactly one ticket query.                                               *)
C7_LookupBeforeQuery ==
  /\ nQueries <= 1
  /\ nQueries > 0 => (nLookups = 1 /\ user \in users)
  /\ ShowUserService(users, req.userId) = {} =>
       /\ pc \in {"lookup", "failed"}
       /\ nQueries = 0
       /\ response.outcome # "ok"
       /\ pc = "failed" => response = NotFound
  /\ pc = "done" => (nLookups = 1 /\ nQueries = 1 /\ response.outcome = "ok")

C7_Witness ==
  /\ pc = "failed"
  /\ nLookups = 1
  /\ response.outcome = "NotFound"

(* C8: with a date, every returned ticket was created within the closed    *)
(* interval from the first to the last millisecond of that day, and the    *)
(* date clause leaves the queue, ownership/pending and status clauses in   *)
(* force: the matching set is the one of the request without date,         *)
(* restricted to the day.                                                  *)
C8_DateClosedInterval ==
  (pc = "done" /\ req.date # "") =>
    LET first == parseISO(req.date)
        InDay(t) == first <= t.createdAt /\ t.createdAt < first + MsPerDay
    IN  /\ \A i \in Returned : InDay(TicketStore[i])
        /\ MatchSet(whereCondition) =
             {i \in MatchSet(WhereOf([req EXCEPT !.date = ""], user)) :
                InDay(TicketStore[i])}
        /\ whereCondition.queueId =
             QueueClause(EmptyWhere, user, req.queueIds).queueId
        /\ whereCondition.status = req.status

C8_Witness ==
  /\ pc = "done"
  /\ req.date = "2024-05-02"
  /\ req.status = "open"
  /\ req.showAll = ""
  /\ req.searchParam = <<>>
  /\ ~isAdmin(user)
  /\ \E i \in Returned : TicketStore[i].createdAt = 2 * MsPerDay - 1
  /\ \E i \in MatchSet(WhereOf([req EXCEPT !.date = ""], user)) :
        TicketStore[i].createdAt = 2 * MsPerDay
  /\ \E i \in MatchSet(WhereOf([req EXCEPT !.date = ""], user)) :
        TicketStore[i].createdAt = MsPerDay - 1

(* C9: in the second variant, a non-admin user without assigned queues     *)
(* gets an empty list, whatever the other parameters, also when the table  *)
(* holds tickets without queue.                                            *)
C9_NoQueuesNoTicketsB ==
  (pc = "done" /\ ~isAdminB(user) /\ user.queues = <<>>) =>
    response.tickets = <<>>

(* C10: in the second variant, with a non-empty searchParam every returned *)
(* ticket matches the search disjunction, whatever the later filters.      *)
C10_SearchKeptB ==
  (pc = "done" /\ req.searchParam # <<>>) =>
    \A i \in Returned : SearchMatches(TicketStore[i], Pattern)

TypeOK ==
  /\ pc \in {"lookup", "queue", "ownership", "status", "date", "search",
             "unread", "query", "respond", "queueB", "ownershipB", "showAllB",
             "statusB", "searchB", "dateB", "unreadB", "queryB", "respondB",
             "done", "failed"}
  /\ count \in 0..NumTickets
  /\ Len(rows) <= limit

====
